---- MODULE Spec2Model ----
(***************************************************************************)
(* kegos: the reconcile loop of internal/runner (Runner.reconcileUserGroups *)
(* and Runner.PleaseDoYourStuffForever) against a Keycloak realm and a      *)
(* GSuite directory.  Names and paths are sequences of one-character        *)
(* strings so that strings.HasPrefix is computed character by character.    *)
(***************************************************************************)
EXTENDS Integers, Sequences, FiniteSets, TLC

\* ------------------------------------------------------------------ bounds
MaxCycles == 2
MaxFailures == 1
MaxFetches == 5

\* ------------------------------------------------------------- the realm
None == "none"

Users == {"u1", "u2"}

\* GetUsers returns a slice: the order of the realm's user listing.
KcUsers == <<"u1", "u2">>

\* The users whose Email field is nil (the realm asks no e-mail of a user).
NoEmail == {"u2"}

\* --synced-parent-group
syncedParentGroup == <<"w">>

Na == <<"a">>
Nb == <<"b">>

\* The group names GSuite can assert.
GsuiteNames == {Na, Nb}

\* The order in which GSuite lists group names.
GsuiteOrder == <<Na, Nb>>

\* The groups the realm can hold: the managed parent /w, its children /w/a
\* and /w/b, a deeper descendant /w/a/b, the unrelated top-level group
\* /wx with its child /wx/a, and a second group of the parent's name that is
\* not top-level, /wx/w, with its children /wx/w/a and /wx/w/b.
Groups == {"P", "A", "B", "D", "X", "UA", "NW", "NWA", "NWB"}

GroupName ==
    [g \in Groups |->
        CASE g = "P" -> <<"w">>
          [] g = "A" -> Na
          [] g = "B" -> Nb
          [] g = "D" -> Nb
          [] g = "X" -> <<"w", "x">>
          [] g = "UA" -> Na
          [] g = "NW" -> <<"w">>
          [] g = "NWA" -> Na
          [] g = "NWB" -> Nb]

GroupParent ==
    [g \in Groups |->
        CASE g = "P" -> None
          [] g = "A" -> "P"
          [] g = "B" -> "P"
          [] g = "D" -> "A"
          [] g = "X" -> None
          [] g = "UA" -> "X"
          [] g = "NW" -> "X"
          [] g = "NWA" -> "NW"
          [] g = "NWB" -> "NW"]

RECURSIVE GroupPath(_)
GroupPath(g) ==
    IF GroupParent[g] = None
    THEN <<"/">> \o GroupName[g]
    ELSE GroupPath(GroupParent[g]) \o <<"/">> \o GroupName[g]

\* The groups a user can be a member of before the first cycle: u1 anywhere,
\* u2 in the managed child /w/a.
MemberGroups ==
    [u \in Users |-> IF u = "u1" THEN {"A", "B", "D", "UA"} ELSE {"A"}]

\* The groups under the second group of the parent's name.
Nested == {"NW", "NWA", "NWB"}

\* The realms the first cycle can find: /wx and /wx/a exist, every group's
\* parent exists, /w/a comes with its child /w/a/b (a group without
\* members is seen by no listing of a user's groups), and the parent's name
\* occurs at the top level only.
InitialRealms ==
    {gs \in SUBSET (Groups \ Nested) :
        /\ {"X", "UA"} \subseteq gs
        /\ \A g \in gs : GroupParent[g] = None \/ GroupParent[g] \in gs
        /\ "A" \in gs => "D" \in gs}

\* Orders in which the realm lists the groups of a user.
ListOrders ==
    { <<"A", "B", "UA", "D", "NWA", "NWB">>,
      <<"UA", "D", "A", "B", "NWB", "NWA">> }

EmptyMap == [x \in {} |-> x]

VARIABLES
    exists,            \* groups present in the realm
    members,           \* memberships <<user, group>> in the realm
    source,            \* GSuite: user -> set of group names
    listOrder,         \* order of the realm's group listings
    pc,                \* position of the loop
    cycle,             \* number of the running cycle
    failures,          \* external calls that failed so far
    token,             \* cycle in which the access token was obtained, 0: none
    kcParentGroupID,
    kcChildrenGroups,  \* name -> group: the managed group index
    kcUsersGroupsMap,  \* user -> (name -> group)
    userIdx,           \* position in KcUsers of getKeycloakUsersGroups
    usersTodo,         \* users the range over kcUsersGroupsMap has not visited
    curUser,
    gsuiteGroups,      \* GSuite group names of curUser
    delTodo,           \* names the Deletions range has not visited
    addIdx,            \* position in gsuiteGroups of the Additions loop
    calls,             \* external calls of the running cycle, in order
    startMembers,      \* memberships when the running cycle started
    prevCalls,         \* the set of external calls of the previous cycle
    collector,         \* the paginated collector that runs
    remote,            \* the remote collection the collector reads
    paramFirst,
    allItems,          \* allUsers, allGroups: the items gathered so far
    fetched,           \* the page fetches made so far, in order
    pagPc,             \* position of the collector
    result,            \* what the collector returned
    flags,             \* the command line: flag -> value
    environ,           \* the environment: variable -> value
    flagReconcileInterval,
    errors,            \* the violations main has collected
    stderr,            \* the violations main has printed
    exitStatus,        \* the status the process exited with, -1: it runs
    mainPc             \* position of main

\* The state of a paginated collector of internal/keycloak.
pagVars == <<collector, remote, paramFirst, allItems, fetched, pagPc, result>>

\* The state of main.
mainVars == <<flags, environ, flagReconcileInterval, errors, stderr,
              exitStatus, mainPc>>

vars == <<exists, members, source, listOrder, pc, cycle, failures,
          token, kcParentGroupID, kcChildrenGroups, kcUsersGroupsMap, userIdx,
          usersTodo, curUser, gsuiteGroups, delTodo, addIdx, calls,
          startMembers, prevCalls, pagVars, mainVars>>

\* What no step of the reconcile loop writes.
world == <<source, listOrder, pagVars, mainVars>>
locals == <<kcParentGroupID, kcChildrenGroups, kcUsersGroupsMap, userIdx,
            usersTodo, curUser, gsuiteGroups, delTodo, addIdx>>

\* ------------------------------------------------------------- helpers
\* strings.HasPrefix
HasPrefix(s, prefix) ==
    /\ Len(s) >= Len(prefix)
    /\ SubSeq(s, 1, Len(prefix)) = prefix

\* slices.Contains
Contains(s, e) == \E i \in 1..Len(s) : s[i] = e

\* "/" + r.syncedParentGroup, without the separator at the end
ManagedPrefixNoSeparator == <<"/">> \o syncedParentGroup

\* "/" + r.syncedParentGroup + "/"
ManagedPrefix == <<"/">> \o syncedParentGroup \o <<"/">>

\* One external call: the operation, the user and group name it is about,
\* the group handle passed or returned, and whether it succeeded.
NoName == <<>>

Call(op, user, name, gid, ok) ==
    [op |-> op, user |-> user, name |-> name, gid |-> gid, ok |-> ok]

CanFail == failures < MaxFailures

\* ---------------------------------------------------------------- Init
\* No paginated collector is looked at.
NoResult == [items |-> <<>>, err |-> FALSE]

PagIdle ==
    /\ collector = None
    /\ remote = [endless |-> FALSE, size |-> 0]
    /\ paramFirst = 0
    /\ allItems = <<>>
    /\ fetched = <<>>
    /\ pagPc = "idle"
    /\ result = NoResult

\* The flags main validates as required, in the order of its checks.
RequiredFlags ==
    << "gsuite-credentials", "gsuite-domain", "keycloak-realm", "keycloak-uri",
       "keycloak-client-id", "keycloak-client-secret", "synced-parent-group" >>

Flags == {RequiredFlags[i] : i \in 1..Len(RequiredFlags)} \cup {"log-level"}

\* The environment variable main reads beside each flag.
EnvVar ==
    [f \in Flags |->
        CASE f = "gsuite-credentials" -> "GSUITE_CREDENTIALS"
          [] f = "gsuite-domain" -> "GSUITE_DOMAIN"
          [] f = "keycloak-realm" -> "KEYCLOAK_REALM"
          [] f = "keycloak-uri" -> "KEYCLOAK_URI"
          [] f = "keycloak-client-id" -> "KEYCLOAK_CLIENT_ID"
          [] f = "keycloak-client-secret" -> "KEYCLOAK_CLIENT_SECRET"
          [] f = "synced-parent-group" -> "SYNCED_PARENT_GROUP"
          [] f = "log-level" -> "LOG_LEVEL"]

EnvVars == {EnvVar[f] : f \in Flags}

\* main has validated a complete configuration and has launched the runner.
MainRunning ==
    /\ flags = [f \in Flags |-> IF f = "log-level" THEN "info" ELSE "f"]
    /\ environ = [v \in EnvVars |-> ""]
    /\ flagReconcileInterval = 1
    /\ errors = <<>>
    /\ stderr = <<>>
    /\ exitStatus = -1
    /\ mainPc = "running"

Init ==
    /\ PagIdle
    /\ MainRunning
    /\ exists \in InitialRealms
    /\ members \in SUBSET {m \in Users \X exists : m[2] \in MemberGroups[m[1]]}
    /\ source \in [Users -> SUBSET GsuiteNames]
    /\ listOrder \in ListOrders
    /\ pc = "renew"
    /\ cycle = 1
    /\ failures = 0
    /\ token = 0
    /\ kcParentGroupID = None
    /\ kcChildrenGroups = EmptyMap
    /\ kcUsersGroupsMap = EmptyMap
    /\ userIdx = 1
    /\ usersTodo = {}
    /\ curUser = None
    /\ gsuiteGroups = <<>>
    /\ delTodo = {}
    /\ addIdx = 1
    /\ calls = <<>>
    /\ startMembers = members
    /\ prevCalls = {}


\* ------------------------------------------------- PleaseDoYourStuffForever
\* r.keycloak.RenewToken() succeeds: the cycle body runs.
RenewTokenOk ==
    /\ pc = "renew"
    /\ token' = cycle
    /\ calls' = Append(calls, Call("renew", None, NoName, None, TRUE))
    /\ pc' = "findParent"
    /\ UNCHANGED <<exists, members, world, cycle, failures, locals,
                   startMembers, prevCalls>>

\* r.keycloak.RenewToken() fails and the cycle body runs all the same, with
\* the token the object holds.
RenewTokenFailGoOn ==
    /\ pc = "renew"
    /\ CanFail
    /\ failures' = failures + 1
    /\ calls' = Append(calls, Call("renew", None, NoName, None, FALSE))
    /\ pc' = "findParent"
    /\ UNCHANGED <<exists, members, world, cycle, token, locals,
                   startMembers, prevCalls>>

\* r.keycloak.RenewToken() fails: goto takeANap.
RenewTokenFail ==
    /\ pc = "renew"
    /\ CanFail
    /\ failures' = failures + 1
    /\ calls' = Append(calls, Call("renew", None, NoName, None, FALSE))
    /\ pc' = "nap"
    /\ UNCHANGED <<exists, members, world, cycle, token, locals,
                   startMembers, prevCalls>>

\* time.Sleep(r.reconcileLoopDuration), then the next iteration of the loop.
TakeANap ==
    /\ pc = "nap"
    /\ cycle < MaxCycles
    /\ cycle' = cycle + 1
    /\ pc' = "renew"
    /\ prevCalls' = {calls[i] : i \in 1..Len(calls)}
    /\ calls' = <<>>
    /\ startMembers' = members
    /\ kcParentGroupID' = None
    /\ kcChildrenGroups' = EmptyMap
    /\ kcUsersGroupsMap' = EmptyMap
    /\ userIdx' = 1
    /\ usersTodo' = {}
    /\ curUser' = None
    /\ gsuiteGroups' = <<>>
    /\ delTodo' = {}
    /\ addIdx' = 1
    /\ UNCHANGED <<exists, members, world, failures, token>>

\* ------------------------------------------------ getKeycloakChildrenGroups
\* GetGroups(Exact, Max 1, Search: syncedParentGroup) returns a group.
FindParentFound ==
    /\ pc = "findParent"
    /\ \E g \in exists :
        /\ GroupName[g] = syncedParentGroup
        /\ kcParentGroupID' = g
        /\ calls' = Append(calls, Call("find", None, syncedParentGroup, g, TRUE))
    /\ pc' = "getChildren"
    /\ UNCHANGED <<exists, members, world, cycle, failures, token,
                   kcChildrenGroups, kcUsersGroupsMap, userIdx, usersTodo,
                   curUser, gsuiteGroups, delTodo, addIdx, startMembers,
                   prevCalls>>

\* The search is taken to have returned no group, whatever the realm holds.
FindParentAbsentAlways ==
    /\ pc = "findParent"
    /\ calls' = Append(calls, Call("find", None, syncedParentGroup, None, TRUE))
    /\ pc' = "createParent"
    /\ UNCHANGED <<exists, members, world, cycle, failures, token, locals,
                   startMembers, prevCalls>>

\* GetGroups returns no group: len(kcExistingGroups) == 0.
FindParentAbsent ==
    /\ pc = "findParent"
    /\ \A g \in exists : GroupName[g] # syncedParentGroup
    /\ calls' = Append(calls, Call("find", None, syncedParentGroup, None, TRUE))
    /\ pc' = "createParent"
    /\ UNCHANGED <<exists, members, world, cycle, failures, token, locals,
                   startMembers, prevCalls>>

\* A call of the cycle's preamble fails, the error is logged and the cycle
\* goes on to the users with what it has.
AbortCycleGoOn(at, op) ==
    /\ pc = at
    /\ CanFail
    /\ failures' = failures + 1
    /\ calls' = Append(calls, Call(op, None, NoName, None, FALSE))
    /\ pc' = "getUserGroups"
    /\ UNCHANGED <<exists, members, world, cycle, token, locals,
                   startMembers, prevCalls>>

\* A call of the cycle's preamble fails and the loop goes to its next
\* iteration without the sleep.
AbortCycleNoSleep(at, op) ==
    /\ pc = at
    /\ CanFail
    /\ cycle < MaxCycles
    /\ failures' = failures + 1
    /\ cycle' = cycle + 1
    /\ pc' = "renew"
    /\ prevCalls' = {calls[i] : i \in 1..Len(calls)}
                       \cup {Call(op, None, NoName, None, FALSE)}
    /\ calls' = <<>>
    /\ startMembers' = members
    /\ kcParentGroupID' = None
    /\ kcChildrenGroups' = EmptyMap
    /\ kcUsersGroupsMap' = EmptyMap
    /\ userIdx' = 1
    /\ usersTodo' = {}
    /\ curUser' = None
    /\ gsuiteGroups' = <<>>
    /\ delTodo' = {}
    /\ addIdx' = 1
    /\ UNCHANGED <<exists, members, world, token>>

\* A call of the cycle's preamble fails: reconcileUserGroups returns.
AbortCycle(at, op) ==
    /\ pc = at
    /\ CanFail
    /\ failures' = failures + 1
    /\ calls' = Append(calls, Call(op, None, NoName, None, FALSE))
    /\ pc' = "nap"
    /\ UNCHANGED <<exists, members, world, cycle, token, locals,
                   startMembers, prevCalls>>

FindParentFail == AbortCycle("findParent", "find")

\* CreateGroup(kcParentGroup) creates the top-level group named syncedParentGroup.
CreateParentOk ==
    /\ pc = "createParent"
    /\ \E g \in Groups \ exists :
        /\ GroupName[g] = syncedParentGroup
        /\ GroupParent[g] = None
        /\ exists' = exists \cup {g}
        /\ kcParentGroupID' = g
        /\ calls' = Append(calls, Call("createParent", None, syncedParentGroup, g, TRUE))
    /\ pc' = "getChildren"
    /\ UNCHANGED <<members, world, cycle, failures, token, kcChildrenGroups,
                   kcUsersGroupsMap, userIdx, usersTodo, curUser, gsuiteGroups,
                   delTodo, addIdx, startMembers, prevCalls>>

CreateParentFail == AbortCycle("createParent", "createParent")

\* The enumeration lists the children of the children too.
ChildrenMapDeep(parent) ==
    LET kids == {g \in exists :
                    \/ GroupParent[g] = parent
                    \/ /\ GroupParent[g] # None
                       /\ GroupParent[GroupParent[g]] = parent}
    IN  [n \in {GroupName[g] : g \in kids} |->
            CHOOSE g \in kids : GroupName[g] = n]

\* kcChildrenGroupsMap[*kcGroup.Name] = kcGroup over the direct children.
ChildrenMap(parent) ==
    LET kids == {g \in exists : GroupParent[g] = parent}
    IN  [n \in {GroupName[g] : g \in kids} |->
            CHOOSE g \in kids : GroupName[g] = n]

\* The handles of the children the previous cycle created are kept and laid
\* under the enumeration.
GetChildrenOkCached ==
    /\ pc = "getChildren"
    /\ LET made == {c \in prevCalls : c.op = "createChild" /\ c.ok}
           kept == [n \in {c.name : c \in made} |->
                       (CHOOSE c \in made : c.name = n).gid]
       IN  kcChildrenGroups' = ChildrenMap(kcParentGroupID) @@ kept
    /\ calls' = Append(calls, Call("children", None, NoName, kcParentGroupID, TRUE))
    /\ pc' = "getUsers"
    /\ UNCHANGED <<exists, members, world, cycle, failures, token,
                   kcParentGroupID, kcUsersGroupsMap, userIdx, usersTodo,
                   curUser, gsuiteGroups, delTodo, addIdx, startMembers,
                   prevCalls>>

GetChildrenOk ==
    /\ pc = "getChildren"
    /\ kcChildrenGroups' = ChildrenMap(kcParentGroupID)
    /\ calls' = Append(calls, Call("children", None, NoName, kcParentGroupID, TRUE))
    /\ pc' = "getUsers"
    /\ UNCHANGED <<exists, members, world, cycle, failures, token,
                   kcParentGroupID, kcUsersGroupsMap, userIdx, usersTodo,
                   curUser, gsuiteGroups, delTodo, addIdx, startMembers,
                   prevCalls>>

GetChildrenFail == AbortCycle("getChildren", "children")

\* --------------------------------------------------- getKeycloakUsersGroups
GetUsersOk ==
    /\ pc = "getUsers"
    /\ kcUsersGroupsMap' = EmptyMap
    /\ userIdx' = 1
    /\ calls' = Append(calls, Call("users", None, NoName, None, TRUE))
    /\ pc' = "getUserGroups"
    /\ UNCHANGED <<exists, members, world, cycle, failures, token,
                   kcParentGroupID, kcChildrenGroups, usersTodo, curUser,
                   gsuiteGroups, delTodo, addIdx, startMembers, prevCalls>>

GetUsersFail == AbortCycle("getUsers", "users")

\* The groups of a user as the realm lists them.
UserGroupsList(u) ==
    LET held(g) == <<u, g>> \in members
    IN  SelectSeq(listOrder, held)

\* tmpGroupsMap[*kcGroup.Name] = kcGroup: a later group of the same name
\* replaces an earlier one.
RECURSIVE GroupsMapOf(_)
GroupsMapOf(s) ==
    IF s = <<>>
    THEN EmptyMap
    ELSE LET last == s[Len(s)]
         IN  (GroupName[last] :> last) @@ GroupsMapOf(SubSeq(s, 1, Len(s) - 1))

GetUserGroupsOk ==
    /\ pc = "getUserGroups"
    /\ userIdx <= Len(KcUsers)
    /\ LET u == KcUsers[userIdx]
       IN  /\ kcUsersGroupsMap' = (u :> GroupsMapOf(UserGroupsList(u))) @@ kcUsersGroupsMap
           /\ calls' = Append(calls, Call("userGroups", u, NoName, None, TRUE))
    /\ userIdx' = userIdx + 1
    /\ UNCHANGED <<exists, members, world, pc, cycle, failures, token,
                   kcParentGroupID, kcChildrenGroups, usersTodo, curUser,
                   gsuiteGroups, delTodo, addIdx, startMembers, prevCalls>>

\* GetUserGroups fails: the error is logged with *user.Email and the user is
\* skipped; a nil Email makes the log call panic.
GetUserGroupsFail ==
    /\ pc = "getUserGroups"
    /\ userIdx <= Len(KcUsers)
    /\ CanFail
    /\ failures' = failures + 1
    /\ LET u == KcUsers[userIdx]
       IN  /\ calls' = Append(calls, Call("userGroups", u, NoName, None, FALSE))
           /\ pc' = IF u \in NoEmail THEN "crashed" ELSE pc
    /\ userIdx' = userIdx + 1
    /\ UNCHANGED <<exists, members, world, cycle, token, kcParentGroupID,
                   kcChildrenGroups, kcUsersGroupsMap, usersTodo, curUser,
                   gsuiteGroups, delTodo, addIdx, startMembers, prevCalls>>

\* return kcUsersGroups, nil; the range over kcUsersGroupsMap begins.
UsersGroupsDone ==
    /\ pc = "getUserGroups"
    /\ userIdx > Len(KcUsers)
    /\ usersTodo' = DOMAIN kcUsersGroupsMap
    /\ pc' = "rangeUsers"
    /\ UNCHANGED <<exists, members, world, cycle, failures, token,
                   kcParentGroupID, kcChildrenGroups, kcUsersGroupsMap,
                   userIdx, curUser, gsuiteGroups, delTodo, addIdx, calls,
                   startMembers, prevCalls>>


\* -------------------------------------------------------- reconcileUserGroups
\* GSuite's answer for a user, as a slice.
GsuiteGroupsOf(u) ==
    LET asserted(n) == n \in source[u]
    IN  SelectSeq(GsuiteOrder, asserted)

\* GetGroupsFromUser succeeds for the next user of the range.
GetGroupsFromUserOk(u) ==
    /\ pc = "rangeUsers"
    /\ u \in usersTodo
    /\ usersTodo' = usersTodo \ {u}
    /\ curUser' = u
    /\ gsuiteGroups' = GsuiteGroupsOf(u)
    /\ delTodo' = DOMAIN kcUsersGroupsMap[u]
    /\ calls' = Append(calls, Call("source", u, NoName, None, TRUE))
    /\ pc' = "deletions"
    /\ UNCHANGED <<exists, members, world, cycle, failures, token,
                   kcParentGroupID, kcChildrenGroups, kcUsersGroupsMap,
                   userIdx, addIdx, startMembers, prevCalls>>

\* GetGroupsFromUser fails and the loop body goes on without the continue,
\* with the nil slice the failed call returned.
GetGroupsFromUserFailNoContinue(u) ==
    /\ pc = "rangeUsers"
    /\ u \in usersTodo
    /\ CanFail
    /\ failures' = failures + 1
    /\ usersTodo' = usersTodo \ {u}
    /\ curUser' = u
    /\ gsuiteGroups' = <<>>
    /\ delTodo' = DOMAIN kcUsersGroupsMap[u]
    /\ calls' = Append(calls, Call("source", u, NoName, None, FALSE))
    /\ pc' = "deletions"
    /\ UNCHANGED <<exists, members, world, cycle, token, kcParentGroupID,
                   kcChildrenGroups, kcUsersGroupsMap, userIdx, addIdx,
                   startMembers, prevCalls>>

\* GetGroupsFromUser fails: "Ignoring user...", continue.
GetGroupsFromUserFail(u) ==
    /\ pc = "rangeUsers"
    /\ u \in usersTodo
    /\ CanFail
    /\ failures' = failures + 1
    /\ usersTodo' = usersTodo \ {u}
    /\ calls' = Append(calls, Call("source", u, NoName, None, FALSE))
    /\ UNCHANGED <<exists, members, world, pc, cycle, token, kcParentGroupID,
                   kcChildrenGroups, kcUsersGroupsMap, userIdx, curUser,
                   gsuiteGroups, delTodo, addIdx, startMembers, prevCalls>>

\* The range over kcUsersGroupsMap is exhausted: reconcileUserGroups returns.
ReconcileDone ==
    /\ pc = "rangeUsers"
    /\ usersTodo = {}
    /\ pc' = "nap"
    /\ UNCHANGED <<exists, members, world, cycle, failures, token, locals,
                   calls, startMembers, prevCalls>>

\* strings.HasPrefix(*kcUserGroup.Path, "/"+r.syncedParentGroup+"/")
IsAutoManaged(g) == HasPrefix(GroupPath(g), ManagedPrefix)

\* The Deletions loop reaches the DeleteUserFromGroup call for the group the
\* user holds under name n.
MustDelete(u, n) ==
    LET kcUserGroup == kcUsersGroupsMap[u][n]
    IN  /\ IsAutoManaged(kcUserGroup)
        /\ ~Contains(gsuiteGroups, GroupName[kcUserGroup])

\* The handle of the group the user holds: *kcUserGroup.ID
DeletionTargetHeld(u, n) == kcUsersGroupsMap[u][n]

\* *kcChildrenGroups[*kcUserGroup.Name].ID
DeletionTarget(u, n) == kcChildrenGroups[n]

\* One iteration of the Deletions range that makes no call.
DeletionSkip(n) ==
    /\ pc = "deletions"
    /\ n \in delTodo
    /\ ~MustDelete(curUser, n)
    /\ delTodo' = delTodo \ {n}
    /\ UNCHANGED <<exists, members, world, pc, cycle, failures, token,
                   kcParentGroupID, kcChildrenGroups, kcUsersGroupsMap,
                   userIdx, usersTodo, curUser, gsuiteGroups, addIdx, calls,
                   startMembers, prevCalls>>

\* kcChildrenGroups[*kcUserGroup.Name] is nil: the dereference of .ID panics.
DeletionPanic(n) ==
    /\ pc = "deletions"
    /\ n \in delTodo
    /\ MustDelete(curUser, n)
    /\ n \notin DOMAIN kcChildrenGroups
    /\ delTodo' = delTodo \ {n}
    /\ pc' = "crashed"
    /\ UNCHANGED <<exists, members, world, cycle, failures, token,
                   kcParentGroupID, kcChildrenGroups, kcUsersGroupsMap,
                   userIdx, usersTodo, curUser, gsuiteGroups, addIdx, calls,
                   startMembers, prevCalls>>

DeleteUserFromGroupOk(n) ==
    /\ pc = "deletions"
    /\ n \in delTodo
    /\ MustDelete(curUser, n)
    /\ n \in DOMAIN kcChildrenGroups
    /\ LET target == DeletionTarget(curUser, n)
       IN  /\ members' = members \ {<<curUser, target>>}
           /\ calls' = Append(calls, Call("remove", curUser, n, target, TRUE))
    /\ delTodo' = delTodo \ {n}
    /\ UNCHANGED <<exists, world, pc, cycle, failures, token, kcParentGroupID,
                   kcChildrenGroups, kcUsersGroupsMap, userIdx, usersTodo,
                   curUser, gsuiteGroups, addIdx, startMembers, prevCalls>>

\* DeleteUserFromGroup fails and reconcileUserGroups returns.
DeleteUserFromGroupFailReturn(n) ==
    /\ pc = "deletions"
    /\ n \in delTodo
    /\ MustDelete(curUser, n)
    /\ n \in DOMAIN kcChildrenGroups
    /\ CanFail
    /\ failures' = failures + 1
    /\ calls' = Append(calls,
                  Call("remove", curUser, n, DeletionTarget(curUser, n), FALSE))
    /\ delTodo' = delTodo \ {n}
    /\ pc' = "nap"
    /\ UNCHANGED <<exists, members, world, cycle, token, kcParentGroupID,
                   kcChildrenGroups, kcUsersGroupsMap, userIdx, usersTodo,
                   curUser, gsuiteGroups, addIdx, startMembers, prevCalls>>

\* DeleteUserFromGroup fails: logged, the range goes on.
DeleteUserFromGroupFail(n) ==
    /\ pc = "deletions"
    /\ n \in delTodo
    /\ MustDelete(curUser, n)
    /\ n \in DOMAIN kcChildrenGroups
    /\ CanFail
    /\ failures' = failures + 1
    /\ calls' = Append(calls,
                  Call("remove", curUser, n, DeletionTarget(curUser, n), FALSE))
    /\ delTodo' = delTodo \ {n}
    /\ UNCHANGED <<exists, members, world, pc, cycle, token, kcParentGroupID,
                   kcChildrenGroups, kcUsersGroupsMap, userIdx, usersTodo,
                   curUser, gsuiteGroups, addIdx, startMembers, prevCalls>>

\* The Deletions range is exhausted: the Additions loop begins.
DeletionsDone ==
    /\ pc = "deletions"
    /\ delTodo = {}
    /\ addIdx' = 1
    /\ pc' = "additions"
    /\ UNCHANGED <<exists, members, world, cycle, failures, token,
                   kcParentGroupID, kcChildrenGroups, kcUsersGroupsMap,
                   userIdx, usersTodo, curUser, gsuiteGroups, delTodo, calls,
                   startMembers, prevCalls>>

\* _, groupFound := kcUserGroups.Groups[gsuiteGroup]
GroupFound(u, n) == n \in DOMAIN kcUsersGroupsMap[u]

\* The index is not consulted: every addition creates first.
GroupFoundInGlobalMapNever(n) == FALSE

\* _, groupFoundInGlobalMap := kcChildrenGroups[*tmpGroup.Name]
GroupFoundInGlobalMap(n) == n \in DOMAIN kcChildrenGroups

\* A group of the name under another group than the parent.
ChildGroupElsewhere(parent, n) ==
    CHOOSE g \in Groups :
        GroupName[g] = n /\ GroupParent[g] \notin {parent, None}

\* The group CreateChildGroup(parent, name) makes.
ChildGroup(parent, n) ==
    CHOOSE g \in Groups : GroupParent[g] = parent /\ GroupName[g] = n

\* groupFound: continue.
AdditionSkip ==
    /\ pc = "additions"
    /\ addIdx <= Len(gsuiteGroups)
    /\ GroupFound(curUser, gsuiteGroups[addIdx])
    /\ addIdx' = addIdx + 1
    /\ UNCHANGED <<exists, members, world, pc, cycle, failures, token,
                   kcParentGroupID, kcChildrenGroups, kcUsersGroupsMap,
                   userIdx, usersTodo, curUser, gsuiteGroups, delTodo, calls,
                   startMembers, prevCalls>>

\* CreateChildGroup fails, the group without handle is recorded in
\* kcChildrenGroups and AddUserToGroup is called with it.
CreateChildGroupFailNoContinue ==
    /\ pc = "additions"
    /\ addIdx <= Len(gsuiteGroups)
    /\ ~GroupFound(curUser, gsuiteGroups[addIdx])
    /\ ~GroupFoundInGlobalMap(gsuiteGroups[addIdx])
    /\ CanFail
    /\ failures' = failures + 1
    /\ kcChildrenGroups' = (gsuiteGroups[addIdx] :> None) @@ kcChildrenGroups
    /\ calls' = calls \o
         << Call("createChild", curUser, gsuiteGroups[addIdx], None, FALSE),
            Call("add", curUser, gsuiteGroups[addIdx], None, FALSE) >>
    /\ addIdx' = addIdx + 1
    /\ UNCHANGED <<exists, members, world, pc, cycle, token, kcParentGroupID,
                   kcUsersGroupsMap, userIdx, usersTodo, curUser, gsuiteGroups,
                   delTodo, startMembers, prevCalls>>

\* CreateChildGroup fails: logged, continue without AddUserToGroup.
CreateChildGroupFail ==
    /\ pc = "additions"
    /\ addIdx <= Len(gsuiteGroups)
    /\ ~GroupFound(curUser, gsuiteGroups[addIdx])
    /\ ~GroupFoundInGlobalMap(gsuiteGroups[addIdx])
    /\ CanFail
    /\ failures' = failures + 1
    /\ calls' = Append(calls,
                  Call("createChild", curUser, gsuiteGroups[addIdx], None, FALSE))
    /\ addIdx' = addIdx + 1
    /\ UNCHANGED <<exists, members, world, pc, cycle, token, kcParentGroupID,
                   kcChildrenGroups, kcUsersGroupsMap, userIdx, usersTodo,
                   curUser, gsuiteGroups, delTodo, startMembers, prevCalls>>

\* An Additions iteration that does not wait for the Deletions loop to end.
AddUserToGroupAnyPhase(added) ==
    /\ pc \in {"deletions", "additions"}
    /\ curUser # None
    /\ addIdx <= Len(gsuiteGroups)
    /\ ~GroupFound(curUser, gsuiteGroups[addIdx])
    /\ ~added => CanFail
    /\ LET n == gsuiteGroups[addIdx]
           create == ~GroupFoundInGlobalMap(n)
           child == ChildGroup(kcParentGroupID, n)
           index == IF create THEN (n :> child) @@ kcChildrenGroups
                              ELSE kcChildrenGroups
           made == IF create
                   THEN <<Call("createChild", curUser, n, child, TRUE)>>
                   ELSE <<>>
       IN  /\ create => child \notin exists
           /\ exists' = IF create THEN exists \cup {child} ELSE exists
           /\ kcChildrenGroups' = index
           /\ members' = IF added THEN members \cup {<<curUser, index[n]>>}
                                  ELSE members
           /\ calls' = (calls \o made)
                         \o <<Call("add", curUser, n, index[n], added)>>
    /\ failures' = IF added THEN failures ELSE failures + 1
    /\ addIdx' = addIdx + 1
    /\ UNCHANGED <<world, pc, cycle, token, kcParentGroupID, kcUsersGroupsMap,
                   userIdx, usersTodo, curUser, gsuiteGroups, delTodo,
                   startMembers, prevCalls>>

\* The rest of an Additions iteration: CreateChildGroup when the name is not
\* in kcChildrenGroups (the new group is recorded there), then AddUserToGroup
\* with the recorded handle, which succeeds (added) or fails.
AddUserToGroup(added) ==
    /\ pc = "additions"
    /\ addIdx <= Len(gsuiteGroups)
    /\ ~GroupFound(curUser, gsuiteGroups[addIdx])
    /\ ~added => CanFail
    /\ LET n == gsuiteGroups[addIdx]
           create == ~GroupFoundInGlobalMap(n)
           child == ChildGroup(kcParentGroupID, n)
           index == IF create THEN (n :> child) @@ kcChildrenGroups
                              ELSE kcChildrenGroups
           made == IF create
                   THEN <<Call("createChild", curUser, n, child, TRUE)>>
                   ELSE <<>>
       IN  /\ create => child \notin exists
           /\ exists' = IF create THEN exists \cup {child} ELSE exists
           /\ kcChildrenGroups' = index
           /\ members' = IF added THEN members \cup {<<curUser, index[n]>>}
                                  ELSE members
           /\ calls' = (calls \o made)
                         \o <<Call("add", curUser, n, index[n], added)>>
    /\ failures' = IF added THEN failures ELSE failures + 1
    /\ addIdx' = addIdx + 1
    /\ UNCHANGED <<world, pc, cycle, token, kcParentGroupID, kcUsersGroupsMap,
                   userIdx, usersTodo, curUser, gsuiteGroups, delTodo,
                   startMembers, prevCalls>>

AddUserToGroupOk == AddUserToGroup(TRUE)

AddUserToGroupFail == AddUserToGroup(FALSE)

\* The Additions loop is exhausted: next user of the range.
AdditionsDone ==
    /\ pc = "additions"
    /\ addIdx > Len(gsuiteGroups)
    /\ pc' = "rangeUsers"
    /\ UNCHANGED <<exists, members, world, cycle, failures, token, locals,
                   calls, startMembers, prevCalls>>

\* ---------------------------------------------------------------- Next
Next ==
    \/ RenewTokenOk
    \/ RenewTokenFail
    \/ TakeANap
    \/ FindParentFound
    \/ FindParentAbsent
    \/ FindParentFail
    \/ CreateParentOk
    \/ CreateParentFail
    \/ GetChildrenOk
    \/ GetChildrenFail
    \/ GetUsersOk
    \/ GetUsersFail
    \/ GetUserGroupsOk
    \/ GetUserGroupsFail
    \/ UsersGroupsDone
    \/ \E u \in Users : GetGroupsFromUserOk(u)
    \/ \E u \in Users : GetGroupsFromUserFail(u)
    \/ ReconcileDone
    \/ \E n \in GsuiteNames : DeletionSkip(n)
    \/ \E n \in GsuiteNames : DeletionPanic(n)
    \/ \E n \in GsuiteNames : DeleteUserFromGroupOk(n)
    \/ \E n \in GsuiteNames : DeleteUserFromGroupFail(n)
    \/ DeletionsDone
    \/ AdditionSkip
    \/ CreateChildGroupFail
    \/ AddUserToGroupOk
    \/ AddUserToGroupFail
    \/ AdditionsDone

Spec == Init /\ [][Next]_vars

\* ----------------------------------------- the paginated collectors
\* GetGroups, GetChildrenGroups, GetUsers and GetUserGroups of
\* internal/keycloak run the same loop; an item is its position in the
\* remote collection.
Collectors == {"GetGroups", "GetChildrenGroups", "GetUsers", "GetUserGroups"}

paramMax == 100

\* The sizes of the remote collections looked at.
RemoteSizes == {0, 1, 37, 99, 100, 101, 200, 237, 300}

\* A remote collection of a size, or a server that answers every fetch with
\* a full page.
Remotes ==
    {[endless |-> FALSE, size |-> n] : n \in RemoteSizes}
        \cup {[endless |-> TRUE, size |-> 0]}

\* The number of items the server returns for First = first, Max = paramMax.
PageSize(first) ==
    IF remote.endless THEN paramMax
    ELSE IF remote.size - first >= paramMax THEN paramMax
    ELSE IF remote.size - first > 0 THEN remote.size - first
    ELSE 0

\* The items of the page that starts after position first.
Page(first, n) == [i \in 1..n |-> first + i]

\* The loop ends only at an empty page.
NoMorePagesOnEmpty(n) == n = 0

\* The loop ends at a full page too.
NoMorePagesOnFull(n) == n <= paramMax

\* if len(tmpUsers) < paramMax { break }
NoMorePages(n) == n < paramMax

\* A failed fetch returns what was gathered so far.
OnErrorPartial(items) == items

\* return nil, fmt.Errorf(...)
OnError(items) == <<>>

\* The reconcile loop as constructed, before its first step.
RunnerAtRest ==
    /\ exists = {"X", "UA"}
    /\ members = {}
    /\ source = [u \in Users |-> {}]
    /\ listOrder = <<"A", "B", "UA", "D", "NWA", "NWB">>
    /\ pc = "renew"
    /\ cycle = 1
    /\ failures = 0
    /\ token = 0
    /\ kcParentGroupID = None
    /\ kcChildrenGroups = EmptyMap
    /\ kcUsersGroupsMap = EmptyMap
    /\ userIdx = 1
    /\ usersTodo = {}
    /\ curUser = None
    /\ gsuiteGroups = <<>>
    /\ delTodo = {}
    /\ addIdx = 1
    /\ calls = <<>>
    /\ startMembers = {}
    /\ prevCalls = {}

runner == <<exists, members, source, listOrder, pc, cycle, failures, token,
            locals, calls, startMembers, prevCalls>>

\* A collector is called: allUsers is nil, paramFirst := 0.
PagInit ==
    /\ RunnerAtRest
    /\ MainRunning
    /\ collector \in Collectors
    /\ remote \in Remotes
    /\ paramFirst = 0
    /\ allItems = <<>>
    /\ fetched = <<>>
    /\ pagPc = "loop"
    /\ result = NoResult

\* The offset stays where it is.
NextFirstSame(first) == first

\* paramFirst += paramMax
NextFirst(first) == first + paramMax

\* One iteration of the loop whose fetch succeeds: the page is appended, and
\* the loop ends and the collector returns, or paramFirst += paramMax.
FetchPage ==
    /\ pagPc = "loop"
    /\ Len(fetched) < MaxFetches
    /\ LET n == PageSize(paramFirst)
           all == allItems \o Page(paramFirst, n)
       IN  /\ fetched' = Append(fetched, [first |-> paramFirst, max |-> paramMax,
                                         size |-> n, ok |-> TRUE])
           /\ allItems' = all
           /\ IF NoMorePages(n)
              THEN /\ pagPc' = "returned"
                   /\ result' = [items |-> all, err |-> FALSE]
                   /\ UNCHANGED paramFirst
              ELSE /\ paramFirst' = NextFirst(paramFirst)
                   /\ UNCHANGED <<pagPc, result>>
    /\ UNCHANGED <<runner, mainVars, collector, remote>>

\* One iteration of the loop whose fetch fails: the collector returns the error.
FetchFail ==
    /\ pagPc = "loop"
    /\ Len(fetched) < MaxFetches
    /\ fetched' = Append(fetched, [first |-> paramFirst, max |-> paramMax,
                                     size |-> 0, ok |-> FALSE])
    /\ result' = [items |-> OnError(allItems), err |-> TRUE]
    /\ pagPc' = "returned"
    /\ UNCHANGED <<runner, mainVars, collector, remote, paramFirst, allItems>>

PagNext ==
    \/ FetchPage
    \/ FetchFail

PagSpec == PagInit /\ [][PagNext]_vars

\* ------------------------------------------------------------------ main
\* main after flag.Parse(), for a command line without --help.  A violation
\* is written as the name of the flag its message is about.
LogLevelMap == {"debug", "info", "warn", "error"}

getValueFromFlagOrEnv(flagValue, envVar) ==
    IF flagValue # "" THEN flagValue ELSE environ[envVar]

\* gsuiteCredentials, gsuiteDomain, ..., logLevel, syncedParentGroup
FinalValue(f) == getValueFromFlagOrEnv(flags[f], EnvVar[f])

\* The command lines and environments looked at: a required value is given
\* or not, by flag and by variable; the flag log-level has its default, the
\* empty string or an unknown level.
FlagInputs ==
    {[f \in Flags |-> IF f = "log-level" THEN l ELSE req[f]] :
        req \in [Flags \ {"log-level"} -> {"", "f"}],
        l \in {"info", "", "loud"}}

EnvInputs ==
    {[v \in EnvVars |-> IF v = "LOG_LEVEL" THEN l ELSE req[v]] :
        req \in [EnvVars \ {"LOG_LEVEL"} -> {"", "e"}],
        l \in {"", "debug", "loud"}}

Intervals == {-1, 0, 1}

\* The checks of main in their order, each one appending to errors.
AllErrors ==
    LET missing(f) == FinalValue(f) = ""
    IN  SelectSeq(RequiredFlags, missing)
          \o (IF flags["log-level"] \notin LogLevelMap
              THEN <<"log-level">> ELSE <<>>)
          \o (IF flagReconcileInterval <= 0
              THEN <<"reconcile-interval">> ELSE <<>>)

\* Validation that stops at the first violation.
ValidationErrorsFailFast ==
    IF AllErrors = <<>> THEN <<>> ELSE <<AllErrors[1]>>

\* var errors []string ... the list after the last check
ValidationErrors == AllErrors

MainInit ==
    /\ RunnerAtRest
    /\ PagIdle
    /\ flags \in FlagInputs
    /\ environ \in EnvInputs
    /\ flagReconcileInterval \in Intervals
    /\ errors = <<>>
    /\ stderr = <<>>
    /\ exitStatus = -1
    /\ mainPc = "validate"

\* "Validate flags compliance": every check runs.
Validate ==
    /\ mainPc = "validate"
    /\ errors' = ValidationErrors
    /\ mainPc' = "validated"
    /\ UNCHANGED <<runner, pagVars, flags, environ, flagReconcileInterval,
                   stderr, exitStatus>>

\* "Quit on errors": the list is printed, os.Exit(1).
QuitOnErrors ==
    /\ mainPc = "validated"
    /\ Len(errors) > 0
    /\ stderr' = errors
    /\ exitStatus' = 1
    /\ mainPc' = "exited"
    /\ UNCHANGED <<runner, pagVars, flags, environ, flagReconcileInterval,
                   errors>>

\* The credentials file does not exist, or NewRunner fails: log.Fatalf.
FatalStartup ==
    /\ mainPc = "validated"
    /\ Len(errors) = 0
    /\ exitStatus' = 1
    /\ mainPc' = "exited"
    /\ UNCHANGED <<runner, pagVars, flags, environ, flagReconcileInterval,
                   errors, stderr>>

\* leRunner.PleaseDoYourStuffForever()
LaunchRunner ==
    /\ mainPc = "validated"
    /\ Len(errors) = 0
    /\ mainPc' = "running"
    /\ UNCHANGED <<runner, pagVars, flags, environ, flagReconcileInterval,
                   errors, stderr, exitStatus>>

MainNext ==
    \/ Validate
    \/ QuitOnErrors
    \/ FatalStartup
    \/ LaunchRunner

MainSpec == MainInit /\ [][MainNext]_vars

\* ------------------------------------------------------- the open realm
\* The reconcile loop in a realm where the parent's name can also occur
\* below the top level, and where another actor deletes and creates child
\* groups while the loop runs.
OpenRealms ==
    {gs \in SUBSET (Groups \ {"B", "NWB"}) :
        /\ {"X", "UA"} \subseteq gs
        /\ \A g \in gs : GroupParent[g] = None \/ GroupParent[g] \in gs
        /\ "A" \in gs => "D" \in gs}

\* The users that hold groups and are asserted groups in the open realm; the
\* other users of the realm hold none and GSuite asserts none for them.
OpenUsers == {"u1"}

OpenInit ==
    /\ PagIdle
    /\ MainRunning
    /\ exists \in OpenRealms
    /\ members \in SUBSET (OpenUsers \X (exists \cap {"A", "D", "UA", "NWA"}))
    /\ source \in {[u \in Users |-> IF u \in OpenUsers THEN ns ELSE {}] :
                      ns \in SUBSET GsuiteNames}
    /\ listOrder = <<"UA", "D", "A", "B", "NWB", "NWA">>
    /\ pc = "renew"
    /\ cycle = 1
    /\ failures = 0
    /\ token = 0
    /\ kcParentGroupID = None
    /\ kcChildrenGroups = EmptyMap
    /\ kcUsersGroupsMap = EmptyMap
    /\ userIdx = 1
    /\ usersTodo = {}
    /\ curUser = None
    /\ gsuiteGroups = <<>>
    /\ delTodo = {}
    /\ addIdx = 1
    /\ calls = <<>>
    /\ startMembers = members
    /\ prevCalls = {}

\* A group is another group or lies under it.
RECURSIVE IsUnder(_, _)
IsUnder(h, g) ==
    \/ h = g
    \/ GroupParent[h] # None /\ IsUnder(GroupParent[h], g)

\* Between two cycles another actor deletes a child of a group of the
\* parent's name, with what lies under it.
ExternalDeleteChild(g) ==
    /\ pc = "nap"
    /\ cycle < MaxCycles
    /\ g \in exists
    /\ GroupParent[g] # None
    /\ GroupName[GroupParent[g]] = syncedParentGroup
    /\ exists' = {h \in exists : ~IsUnder(h, g)}
    /\ members' = {m \in members : ~IsUnder(m[2], g)}
    /\ UNCHANGED <<world, pc, cycle, failures, token, locals, calls,
                   startMembers, prevCalls>>

\* After the children were enumerated and before the users' groups are
\* fetched another actor creates a child of the parent and puts a user in it.
ExternalCreateChild(u, n) ==
    /\ pc = "getUsers"
    /\ LET child == ChildGroup(kcParentGroupID, n)
       IN  /\ child \notin exists
           /\ exists' = exists \cup {child}
           /\ members' = members \cup {<<u, child>>}
    /\ UNCHANGED <<world, pc, cycle, failures, token, locals, calls,
                   startMembers, prevCalls>>

OpenNext ==
    \/ Next
    \/ \E g \in Groups : ExternalDeleteChild(g)
    \/ \E u \in OpenUsers : \E n \in GsuiteNames : ExternalCreateChild(u, n)

OpenSpec == OpenInit /\ [][OpenNext]_vars


\* ------------------------------------------------- vocabulary of the claims
CallSet == {calls[i] : i \in 1..Len(calls)}

\* The cycle has ended and the loop is about to sleep.
CycleEnded == pc = "nap"

\* Every external call of a set of calls succeeded.
AllOk(cs) == \A c \in cs : c.ok

\* The users whose realm groups were fetched and whose GSuite groups were
\* fetched in the running cycle.
Processed(u) == Call("source", u, NoName, None, TRUE) \in CallSet

\* The managed subtree read as the direct children of the managed parent.
DirectNames(mem, u) ==
    {GroupName[g] : g \in {h \in Groups :
        <<u, h>> \in mem /\ GroupParent[h] = kcParentGroupID}}

\* The managed subtree read as the groups whose path lies under the managed
\* parent's path.
PathNames(mem, u) ==
    {GroupName[g] : g \in {h \in Groups :
        /\ <<u, h>> \in mem
        /\ HasPrefix(GroupPath(h), GroupPath(kcParentGroupID) \o <<"/">>)}}

\* The names an operation was called for on behalf of a user.
NamesCalled(ops, u) ==
    {c.name : c \in {d \in CallSet : d.user = u /\ d.op \in ops}}

\* The number of calls of an operation for a user and a name.
CountCalls(op, u, n) ==
    Cardinality({i \in 1..Len(calls) :
        calls[i].op = op /\ calls[i].user = u /\ calls[i].name = n})

\* The names an addition was attempted for: AddUserToGroup was called, or the
\* CreateChildGroup before it failed.
AddAttempted(u) ==
    NamesCalled({"add"}, u)
      \cup {c.name : c \in {d \in CallSet :
              d.user = u /\ d.op = "createChild" /\ ~d.ok}}

MutationOps == {"add", "remove", "createChild", "createParent"}

\* C1: after a cycle in which every external call succeeded, every user's
\* managed-subtree group names equal the names GSuite asserts for it, under
\* at least one of the two readings of "managed subtree".
C1Convergence ==
    (CycleEnded /\ AllOk(CallSet)) =>
        \A u \in Users :
            \/ DirectNames(members, u) = source[u]
            \/ PathNames(members, u) = source[u]

\* C3: for every processed user an addition is attempted for exactly the
\* names GSuite asserts that the user did not hold inside the managed subtree
\* when the cycle started, whatever it holds outside.
C3Additions ==
    CycleEnded =>
        \A u \in Users : Processed(u) =>
            \/ AddAttempted(u) = source[u] \ DirectNames(startMembers, u)
            \/ AddAttempted(u) = source[u] \ PathNames(startMembers, u)

\* C4: for every processed user remove_membership is called exactly once for
\* each managed-subtree name held at cycle start that GSuite does not assert,
\* whatever the user holds outside the managed subtree.
C4Removals ==
    CycleEnded =>
        \A u \in Users : Processed(u) =>
            /\ \/ NamesCalled({"remove"}, u)
                    = DirectNames(startMembers, u) \ source[u]
               \/ NamesCalled({"remove"}, u)
                    = PathNames(startMembers, u) \ source[u]
            /\ \A n \in GsuiteNames : CountCalls("remove", u, n) <= 1

\* C5: a cycle that follows a cycle whose every call succeeded issues no
\* add_membership, remove_membership or create_group call.
C5Idempotence ==
    (cycle > 1 /\ prevCalls # {} /\ AllOk(prevCalls)) =>
        \A c \in CallSet : c.op \notin MutationOps

\* A user newly requires a name: GSuite asserts it and the user held no
\* managed-subtree group of that name when the cycle started.
Requires(u, n) ==
    /\ n \in source[u]
    /\ n \notin DirectNames(startMembers, u)
    /\ n \notin PathNames(startMembers, u)

\* The name had no group in the managed group index when the cycle started.
AbsentAtStart(n) ==
    \/ ChildGroup(kcParentGroupID, n) \notin exists
    \/ \E c \in CallSet : c.op = "createChild" /\ c.name = n /\ c.ok

\* C6: in a cycle whose every call succeeded, a name absent from the index at
\* cycle start that one or more users newly require is created by exactly one
\* create_group call, and each of those users is added to the created group.
C6OneCreation ==
    (CycleEnded /\ AllOk(CallSet)) =>
        \A n \in GsuiteNames :
            (AbsentAtStart(n) /\ \E u \in Users : Requires(u, n)) =>
                /\ Cardinality({i \in 1..Len(calls) :
                       calls[i].op = "createChild" /\ calls[i].name = n}) = 1
                /\ \A u \in Users : Requires(u, n) =>
                       \E c \in CallSet :
                           /\ c.op = "add"
                           /\ c.user = u
                           /\ c.name = n
                           /\ c.gid = ChildGroup(kcParentGroupID, n)


\* A group is a direct child of a group named syncedParentGroup.
IsManagedChild(g) ==
    /\ GroupParent[g] # None
    /\ GroupName[GroupParent[g]] = syncedParentGroup

\* C2: every add_membership and remove_membership call targets an existing
\* direct child of the managed parent found in this cycle, and no membership
\* in a group that is not a child of the managed parent changes, also when
\* that group has the name of a GSuite group or of a managed child.
C2Scoping ==
    /\ \A c \in CallSet : c.op \in {"add", "remove"} =>
           /\ c.gid \in exists
           /\ GroupParent[c.gid] = kcParentGroupID
           /\ GroupName[kcParentGroupID] = syncedParentGroup
    /\ \A u \in Users : \A g \in Groups : ~IsManagedChild(g) =>
           (<<u, g>> \in members <=> <<u, g>> \in startMembers)

\* C2 witness: a user who holds /w/a and the unmanaged /wx/a of the same name
\* was removed from /w/a and still holds /wx/a.
C2Witness ==
    /\ CycleEnded
    /\ \E c \in CallSet :
           /\ c.op = "remove" /\ c.ok /\ c.gid = "A"
           /\ <<c.user, "UA">> \in members
           /\ <<c.user, "A">> \in startMembers

\* The Deletions and Additions loops ran to their end for a user: a removal
\* was called for every auto-managed group of its snapshot that GSuite does
\* not assert, and an addition was attempted for every GSuite name missing
\* from its snapshot.
ReconcileAttempted(u) ==
    /\ \A n \in DOMAIN kcUsersGroupsMap[u] :
           (IsAutoManaged(kcUsersGroupsMap[u][n]) /\ n \notin source[u]) =>
               n \in NamesCalled({"remove"}, u)
    /\ \A n \in source[u] \ DOMAIN kcUsersGroupsMap[u] : n \in AddAttempted(u)

\* Every user of the snapshot was visited by the reconcile loop.
AllVisited ==
    \A u \in DOMAIN kcUsersGroupsMap :
        /\ \E c \in CallSet : c.op = "source" /\ c.user = u
        /\ Processed(u) => ReconcileAttempted(u)

Held(mem, u) == {g \in Groups : <<u, g>> \in mem}

FailedFor(op, u) == \E c \in CallSet : c.op = op /\ c.user = u /\ ~c.ok

\* C7: when the fetch of a user's realm groups fails the user is left out of
\* the cycle (the loop goes on, no call is made for the user, its memberships
\* stay) and every user whose fetches succeed is reconciled in that cycle.
C7FetchIsolation ==
    \A b \in Users : FailedFor("userGroups", b) =>
        /\ pc # "crashed"
        /\ \A c \in CallSet :
               c.user = b => c.op \notin {"source", "add", "remove", "createChild"}
        /\ Held(members, b) = Held(startMembers, b)
        /\ CycleEnded =>
               /\ b \notin DOMAIN kcUsersGroupsMap
               /\ \A a \in Users \ {b} :
                      Call("userGroups", a, NoName, None, TRUE) \in CallSet =>
                          a \in DOMAIN kcUsersGroupsMap
               /\ AllVisited

\* The last external call made so far is a failed call of one of the operations.
LastCallFailed(ops) ==
    /\ Len(calls) > 0
    /\ calls[Len(calls)].op \in ops
    /\ ~calls[Len(calls)].ok

\* C8: when the fetch of a user's GSuite groups fails no removal, creation or
\* addition is issued for that user in the cycle and its memberships stay,
\* the loop goes on to the next user, and the cycle visits every other user
\* of the snapshot.
C8SourceIsolation ==
    /\ LastCallFailed({"source"}) => pc \in {"rangeUsers", "nap"}
    /\ \A u \in Users : FailedFor("source", u) =>
           /\ \A c \in CallSet :
                  c.user = u => c.op \notin {"add", "remove", "createChild"}
           /\ Held(members, u) = Held(startMembers, u)
    /\ (CycleEnded /\ \E u \in Users : FailedFor("source", u)) => AllVisited

\* C8 witness: the GSuite fetch failed for a user who holds a managed group,
\* and the other user was processed and removed from a group in that cycle.
C8Witness ==
    /\ CycleEnded
    /\ \E u \in Users :
           /\ FailedFor("source", u)
           /\ <<u, "A">> \in members
           /\ Na \notin source[u]
           /\ \E c \in CallSet : c.op = "remove" /\ c.user # u /\ c.ok

\* C9: a failed add_membership or remove_membership call undoes no earlier
\* call and stops nothing: the successful calls of the cycle keep their
\* effect, and at the end of the cycle every removal and addition of every
\* user of the snapshot has been attempted.
C9MutationIsolation ==
    /\ LastCallFailed({"add"}) => pc \in {"additions", "rangeUsers", "nap"}
    /\ LastCallFailed({"remove"}) => pc # "nap" \/ AllVisited
    /\ \A c \in CallSet : (c.op = "add" /\ c.ok) => <<c.user, c.gid>> \in members
    /\ \A c \in CallSet : (c.op = "remove" /\ c.ok) => <<c.user, c.gid>> \notin members
    /\ (CycleEnded /\ \E c \in CallSet : c.op \in {"add", "remove"} /\ ~c.ok)
           => AllVisited

\* C9 witness: a removal failed, and after it the same user was added to a
\* group and the other user was removed from a group.
C9Witness ==
    /\ CycleEnded
    /\ \E i \in 1..Len(calls) :
           /\ calls[i].op = "remove" /\ ~calls[i].ok
           /\ \E j \in (i + 1)..Len(calls) :
                  /\ calls[j].op = "add" /\ calls[j].ok
                  /\ calls[j].user = calls[i].user
           /\ \E k \in (i + 1)..Len(calls) :
                  /\ calls[k].op = "remove" /\ calls[k].ok
                  /\ calls[k].user # calls[i].user

\* C10: an add_membership call always passes the handle the index holds for
\* the name, the handle of an existing group; after a failed create_group for
\* a name no add_membership for that name is issued for that user, the index
\* gets no entry for the name from the failure, and the rest of the cycle is
\* processed.
C10CreationFailure ==
    /\ LastCallFailed({"createChild"}) => pc \in {"additions", "rangeUsers", "nap"}
    /\ \A c \in CallSet : c.op = "add" =>
           /\ c.name \in DOMAIN kcChildrenGroups
           /\ kcChildrenGroups[c.name] = c.gid
           /\ c.gid \in exists
    /\ \A c \in CallSet : (c.op = "createChild" /\ ~c.ok) =>
           /\ \A d \in CallSet :
                  d.op = "add" => ~(d.user = c.user /\ d.name = c.name)
           /\ (\A d \in CallSet :
                  d.op = "createChild" => ~(d.name = c.name /\ d.ok))
                  => c.name \notin DOMAIN kcChildrenGroups
    /\ (CycleEnded /\ \E c \in CallSet : c.op = "createChild" /\ ~c.ok)
           => AllVisited

\* C10 witness: create_group failed for a name of a user, the same user was
\* then added to its other GSuite group, and the other user was processed.
C10Witness ==
    /\ CycleEnded
    /\ \E i \in 1..Len(calls) :
           /\ calls[i].op = "createChild" /\ ~calls[i].ok
           /\ calls[i].name \notin DOMAIN kcChildrenGroups
           /\ \E j \in (i + 1)..Len(calls) :
                  /\ calls[j].op = "add" /\ calls[j].ok
                  /\ calls[j].user = calls[i].user
           /\ \E k \in (i + 1)..Len(calls) :
                  /\ calls[k].op = "source" /\ calls[k].ok
                  /\ calls[k].user # calls[i].user

\* ------------------------------------------------------ the cycle driver
PreambleOps == {"find", "createParent", "children", "users"}

\* The loop can go to sleep and start the next cycle (within the bound on the
\* number of cycles).
SleepsAndRestarts == cycle < MaxCycles => ENABLED TakeANap

\* C11: when finding or creating the managed parent, listing its children or
\* listing the realm's users fails, the failed call is the last call of the
\* cycle, the cycle has issued no add_membership, remove_membership or child
\* create_group call, and the loop sleeps and starts the next cycle.
C11CycleAbort ==
    (\E c \in CallSet : c.op \in PreambleOps /\ ~c.ok) =>
        /\ LastCallFailed(PreambleOps)
        /\ CycleEnded
        /\ \A c \in CallSet : c.op \notin {"add", "remove", "createChild"}
        /\ members = startMembers
        /\ SleepsAndRestarts

\* C11 witness: the listing of the users failed in the first cycle, after the
\* managed parent was created, and the second cycle adds a user to a group.
C11Witness ==
    /\ cycle = 2
    /\ Call("users", None, NoName, None, FALSE) \in prevCalls
    /\ \E c \in prevCalls : c.op = "createParent" /\ c.ok
    /\ \A c \in prevCalls : c.op \notin {"add", "remove", "createChild"}
    /\ \E c \in CallSet : c.op = "add" /\ c.ok

\* C12: every cycle begins with one renewal of the token; every other call
\* of the cycle comes after a successful renewal and is made with the token
\* of this cycle; after a failed renewal the cycle makes no other call, the
\* loop goes to sleep, and the next cycle begins with a renewal again.
C12TokenRefresh ==
    /\ pc = "renew" <=> calls = <<>>
    /\ \A i \in 1..Len(calls) : calls[i].op = "renew" <=> i = 1
    /\ Len(calls) > 1 => calls[1].ok /\ token = cycle
    /\ (Len(calls) > 0 /\ ~calls[1].ok) =>
           /\ Len(calls) = 1
           /\ CycleEnded
           /\ token < cycle
           /\ members = startMembers
           /\ SleepsAndRestarts

\* C12 witness: the renewal failed in the first cycle, which made no other
\* call, and the second cycle renewed the token and removed a user from a
\* group with it.
C12Witness ==
    /\ cycle = 2
    /\ prevCalls = {Call("renew", None, NoName, None, FALSE)}
    /\ token = 2
    /\ \E c \in CallSet : c.op = "remove" /\ c.ok

\* C13: the process never stops in the middle of a cycle: whatever the realm
\* holds and whichever calls fail, the loop always has a next step (up to
\* the bound on the number of cycles, where the model stops at the sleep).
C13NoTerminalState ==
    (pc # "nap" \/ cycle < MaxCycles) => ENABLED Next

\* The add_membership and remove_membership calls of a set of calls that failed.
FailedMutations(cs) == {c \in cs : c.op \in {"add", "remove"} /\ ~c.ok}

\* Every user's managed-subtree group names equal the names GSuite asserts,
\* under at least one of the two readings of "managed subtree".
Converged ==
    \A u \in Users :
        \/ DirectNames(members, u) = source[u]
        \/ PathNames(members, u) = source[u]

\* C14: a cycle that follows a cycle in which an add_membership or
\* remove_membership call failed runs to its end, and when all its calls
\* succeed it has attempted each failed mutation again, for the same user and
\* group, and has brought every user's managed memberships to its GSuite set.
C14SelfHealing ==
    (cycle > 1 /\ FailedMutations(prevCalls) # {}) =>
        /\ pc # "crashed"
        /\ (CycleEnded /\ AllOk(CallSet)) =>
               /\ \A c \in FailedMutations(prevCalls) :
                      \E d \in CallSet :
                          /\ d.op = c.op
                          /\ d.user = c.user
                          /\ d.name = c.name
                          /\ d.gid = c.gid
                          /\ d.ok
               /\ Converged

\* C15: within one cycle each add_membership and remove_membership is called
\* at most once for a user and a name, each fetch of a user's realm groups
\* and of its GSuite groups is made at most once, and after a failed
\* create_group for a name no create_group for that name is called again,
\* also not for a later user.
C15NoRetry ==
    /\ \A u \in Users :
           /\ CountCalls("userGroups", u, NoName) <= 1
           /\ CountCalls("source", u, NoName) <= 1
           /\ \A n \in GsuiteNames :
                  /\ CountCalls("add", u, n) <= 1
                  /\ CountCalls("remove", u, n) <= 1
    /\ \A i \in 1..Len(calls) :
           (calls[i].op = "createChild" /\ ~calls[i].ok) =>
               \A j \in (i + 1)..Len(calls) :
                   ~(calls[j].op = "createChild" /\ calls[j].name = calls[i].name)

\* ------------------------------------------- the paginated collectors
Returned == pagPc = "returned"

\* The sizes of the pages fetched so far (0 for a failed fetch).
Sizes == [i \in 1..Len(fetched) |-> fetched[i].size]

\* The pages of a sequence of fetches, one after the other.
RECURSIVE PagesOf(_)
PagesOf(f) ==
    IF f = <<>>
    THEN <<>>
    ELSE PagesOf(SubSeq(f, 1, Len(f) - 1))
             \o Page(f[Len(f)].first, f[Len(f)].size)

\* A fetch that ends the loop: it failed or returned less than paramMax items.
Ends(i) == ~fetched[i].ok \/ fetched[i].size < paramMax

\* C16: a collector asks for the pages in order, fetches nothing after the
\* first page shorter than the limit, and returns the concatenation of the
\* pages it fetched, which is the whole remote collection in order: page
\* sizes 100, 100, 37 give 237 items in 3 fetches, and 100, 100, 100, 0 give
\* 300 items in 4 fetches.
C16PaginationComplete ==
    /\ \A i \in 1..Len(fetched) : fetched[i].first = (i - 1) * paramMax
    /\ \A i \in 1..(Len(fetched) - 1) : ~Ends(i)
    /\ (Returned /\ ~result.err) =>
           /\ fetched[Len(fetched)].size < paramMax
           /\ result.items = PagesOf(fetched)
           /\ result.items = Page(0, remote.size)
           /\ Len(fetched) = (remote.size \div paramMax) + 1
    /\ (Returned /\ Sizes = <<100, 100, 37>>) => Len(result.items) = 237
    /\ (Len(fetched) >= 4 /\ SubSeq(Sizes, 1, 4) = <<100, 100, 100, 0>>
            /\ fetched[4].ok) =>
           /\ Len(fetched) = 4
           /\ Returned
           /\ Len(result.items) = 300

\* C16 witness: GetUsers has read a collection of 237 users in three fetches
\* of 100, 100 and 37 items.
C16Witness ==
    /\ collector = "GetUsers"
    /\ Returned
    /\ ~result.err
    /\ Sizes = <<100, 100, 37>>
    /\ Len(result.items) = 237
    /\ result.items[237] = 237

\* C17: a failed fetch is the last fetch of a collector, which returns the
\* error and no item; a collector that returns no error has had no failed
\* fetch.
C17PaginationAllOrNothing ==
    /\ \A i \in 1..Len(fetched) : ~fetched[i].ok =>
           /\ i = Len(fetched)
           /\ Returned
           /\ result.err
    /\ result.err => result.items = <<>>
    /\ (Returned /\ ~result.err) => \A i \in 1..Len(fetched) : fetched[i].ok

\* C17 witness: the third fetch of GetUserGroups failed after two full pages
\* were gathered, and the collector returned the error without items.
C17Witness ==
    /\ collector = "GetUserGroups"
    /\ Returned
    /\ result.err
    /\ result.items = <<>>
    /\ Len(fetched) = 3
    /\ Len(allItems) = 2 * paramMax

\* C18: a collector has returned exactly when one of its fetches failed or
\* returned less than the limit; while the server answers every fetch with a
\* full page the collector stays in its loop and fetches again.
C18PaginationTermination ==
    /\ Returned <=> \E i \in 1..Len(fetched) : Ends(i)
    /\ (remote.endless /\ \A i \in 1..Len(fetched) : fetched[i].ok) =>
           /\ pagPc = "loop"
           /\ Len(fetched) < MaxFetches => ENABLED FetchPage

\* C18 witness: against a server that always returns a full page GetGroups
\* has made every fetch the bound allows and is still in its loop.
C18Witness ==
    /\ collector = "GetGroups"
    /\ remote.endless
    /\ pagPc = "loop"
    /\ Len(fetched) = MaxFetches
    /\ Len(allItems) = MaxFetches * paramMax

\* ------------------------------------------------------ the write frame
ReadOps == {"renew", "find", "children", "users", "userGroups", "source"}

\* A group is the managed parent: the top-level group of the configured name.
IsManagedParent(g) ==
    GroupParent[g] = None /\ GroupName[g] = syncedParentGroup

\* C19: no step of the engine deletes a group; a step creates at most the
\* managed parent or a direct child of the managed parent of this cycle;
\* a step changes memberships only in direct children of the managed parent;
\* and the calls the engine makes are reads, create parent, create child,
\* add membership and remove membership (none creates or deletes a user).
C19WriteFrame ==
    [][ /\ exists \subseteq exists'
        /\ \A g \in exists' \ exists :
               \/ IsManagedParent(g)
               \/ /\ GroupParent[g] = kcParentGroupID
                  /\ kcParentGroupID \in exists
                  /\ IsManagedParent(kcParentGroupID)
        /\ \A m \in (members' \ members) \cup (members \ members') :
               /\ GroupParent[m[2]] = kcParentGroupID
               /\ IsManagedParent(kcParentGroupID)
        /\ \A i \in 1..Len(calls') : calls'[i].op \in ReadOps \cup MutationOps
      ]_vars

\* C19 witness: in one cycle the engine created the managed parent, created
\* a child of it and added a user to the child, while /wx and /wx/a and the
\* user's membership of /wx/a are as they were.
C19Witness ==
    /\ CycleEnded
    /\ \E c \in CallSet : c.op = "createParent" /\ c.ok
    /\ \E c \in CallSet :
           /\ c.op = "add" /\ c.ok
           /\ <<c.user, "UA">> \in members
           /\ \E d \in CallSet : d.op = "createChild" /\ d.ok /\ d.gid = c.gid
    /\ {"X", "UA"} \subseteq exists

\* ------------------------------------------------------------------ main
Range(q) == {q[i] : i \in 1..Len(q)}

\* What is wrong with the configuration main ends up with: a required value
\* is empty, the log level is unknown, the interval is not positive.
Violations ==
    {f \in Range(RequiredFlags) : FinalValue(f) = ""}
        \cup (IF FinalValue("log-level") \notin LogLevelMap
              THEN {"log-level"} ELSE {})
        \cup (IF flagReconcileInterval <= 0
              THEN {"reconcile-interval"} ELSE {})

\* C20: validation collects every violation of the configuration, each once;
\* when it found one the process prints all of them in one list and exits
\* with status 1, and the runner is launched only when there is none.
C20ConfigValidation ==
    /\ mainPc # "validate" =>
           /\ Violations \subseteq Range(errors)
           /\ Len(errors) = Cardinality(Range(errors))
    /\ (mainPc = "validated" /\ Violations # {}) =>
           /\ ENABLED QuitOnErrors
           /\ ~ENABLED LaunchRunner
           /\ ~ENABLED FatalStartup
    /\ (mainPc = "exited" /\ Violations # {}) =>
           /\ exitStatus = 1
           /\ Violations \subseteq Range(stderr)
    /\ mainPc = "running" => Violations = {} /\ exitStatus = -1

\* C20 witness: every required value is missing, the log level is unknown
\* and the interval is zero; main printed the nine violations and exited
\* with status 1.
C20Witness ==
    /\ mainPc = "exited"
    /\ exitStatus = 1
    /\ flagReconcileInterval = 0
    /\ Cardinality(Violations) = 9
    /\ Len(stderr) = 9

\* C21: for every setting that is given both by its flag and by its
\* environment variable, with different values, the value main goes on with
\* is the value of the environment variable.
C21EnvOverridesFlag ==
    mainPc # "validate" =>
        \A f \in Flags :
            (/\ flags[f] # ""
             /\ environ[EnvVar[f]] # ""
             /\ flags[f] # environ[EnvVar[f]])
                => FinalValue(f) = environ[EnvVar[f]]

\* ------------------------------------------------- the managed path
\* The top-level group a group lies under.
RECURSIVE TopLevel(_)
TopLevel(g) == IF GroupParent[g] = None THEN g ELSE TopLevel(GroupParent[g])

\* A group at or under a top-level group whose name begins with the name of
\* the managed parent and goes on: /wx, /wx/a for the parent w.
ExtendsParentName(g) ==
    /\ HasPrefix(GroupName[TopLevel(g)], syncedParentGroup)
    /\ GroupName[TopLevel(g)] # syncedParentGroup

\* C22: a group at or under a top-level group whose name only extends the
\* name of the managed parent is not eligible for removal: no removal is
\* called for a user on account of such a group, and the user's membership
\* of it stays.
C22PrefixBoundary ==
    /\ \A g \in Groups : ExtendsParentName(g) => ~IsAutoManaged(g)
    /\ \A u \in DOMAIN kcUsersGroupsMap :
           \A n \in DOMAIN kcUsersGroupsMap[u] :
               ExtendsParentName(kcUsersGroupsMap[u][n]) =>
                   n \notin NamesCalled({"remove"}, u)
    /\ \A u \in Users : \A g \in Groups :
           (ExtendsParentName(g) /\ <<u, g>> \in startMembers)
               => <<u, g>> \in members

\* C22 witness: a user holds /wx/a, which GSuite does not assert, and the
\* managed /w/b; the cycle removed it from /w/b and left it in /wx/a.
C22Witness ==
    /\ CycleEnded
    /\ \E u \in DOMAIN kcUsersGroupsMap :
           /\ Na \in DOMAIN kcUsersGroupsMap[u]
           /\ kcUsersGroupsMap[u][Na] = "UA"
           /\ Na \notin source[u]
           /\ Call("remove", u, Nb, "B", TRUE) \in CallSet
           /\ <<u, "UA">> \in members

\* A group lies under the managed parent found (or created) in this cycle:
\* its path begins with the parent's path and a separator.
UnderParent(g) ==
    HasPrefix(GroupPath(g), GroupPath(kcParentGroupID) \o <<"/">>)

\* C23: a group a user holds is treated as managed (eligible for removal)
\* exactly when its path begins with the path of the managed parent of this
\* cycle, also when that parent is not a top-level group.
C23ManagedPartition ==
    kcParentGroupID # None =>
        \A u \in DOMAIN kcUsersGroupsMap :
            \A n \in DOMAIN kcUsersGroupsMap[u] :
                IsAutoManaged(kcUsersGroupsMap[u][n])
                    <=> UnderParent(kcUsersGroupsMap[u][n])

\* ------------------------------------------------- the managed parent
\* The positions of the calls of an operation in the running cycle.
CallsOf(op) == {i \in 1..Len(calls) : calls[i].op = op}

\* C24: a cycle looks the managed parent up once, before it turns to any
\* user; it calls create parent at most once, only after a search that
\* returned no group and only while no group of that name exists; a group the
\* search found is the parent of the cycle; and a cycle that follows the
\* creation of the parent does not create it again.
C24EnsureParent ==
    /\ Cardinality(CallsOf("find")) <= 1
    /\ Len(calls) > 1 => calls[2].op = "find"
    /\ Cardinality(CallsOf("createParent")) <= 1
    /\ \A i \in CallsOf("createParent") :
           /\ i = 3
           /\ calls[2].ok /\ calls[2].gid = None
           /\ ~calls[i].ok =>
                  \A g \in exists : GroupName[g] # syncedParentGroup
           /\ calls[i].ok => kcParentGroupID = calls[i].gid
    /\ \A i \in CallsOf("find") :
           (calls[i].ok /\ calls[i].gid # None) =>
               /\ kcParentGroupID = calls[i].gid
               /\ GroupName[calls[i].gid] = syncedParentGroup
               /\ CallsOf("createParent") = {}
    /\ (\E c \in prevCalls : c.op = "createParent" /\ c.ok) =>
           CallsOf("createParent") = {}

\* C24 witness: the first cycle created the managed parent; the second found
\* it with its one search, created a child under it and processed both users.
C24Witness ==
    /\ cycle = 2
    /\ CycleEnded
    /\ Call("createParent", None, syncedParentGroup, "P", TRUE) \in prevCalls
    /\ Call("find", None, syncedParentGroup, "P", TRUE) \in CallSet
    /\ \E c \in CallSet : c.op = "createChild" /\ c.ok
    /\ \A u \in Users : Processed(u)

\* ------------------------------------------------- nothing kept between cycles
\* The direct children of a group in the realm as it will be, by name.
DirectChildrenAfter(parent) ==
    {g \in exists' : GroupParent[g] = parent}

\* C25: a cycle begins with an empty index and no snapshot; the enumeration
\* of a cycle leaves in the index exactly the direct children the realm holds
\* under the parent at that moment, one entry per name; and while a cycle
\* works, no entry of its index and no group of its snapshots is a group the
\* realm has lost, so a child deleted between two cycles is in neither of the
\* next cycle.
C25NoCarriedState ==
    [][ /\ pc' = "renew" =>
               /\ kcParentGroupID' = None
               /\ kcChildrenGroups' = EmptyMap
               /\ kcUsersGroupsMap' = EmptyMap
        /\ (pc = "getChildren" /\ pc' = "getUsers") =>
               /\ DOMAIN kcChildrenGroups' =
                      {GroupName[g] : g \in DirectChildrenAfter(kcParentGroupID')}
               /\ \A n \in DOMAIN kcChildrenGroups' :
                      /\ kcChildrenGroups'[n] \in DirectChildrenAfter(kcParentGroupID')
                      /\ GroupName[kcChildrenGroups'[n]] = n
        /\ pc' \notin {"nap", "renew"} =>
               /\ \A n \in DOMAIN kcChildrenGroups' :
                      kcChildrenGroups'[n] \in exists'
               /\ \A u \in DOMAIN kcUsersGroupsMap' :
                      \A n \in DOMAIN kcUsersGroupsMap'[u] :
                          kcUsersGroupsMap'[u][n] \in exists'
      ]_vars

\* C25 witness: the first cycle created the child a, the child was deleted
\* during the sleep, and the second cycle, whose enumeration did not list it,
\* has created it again and added the user.
C25Witness ==
    /\ cycle = 2
    /\ Call("createChild", "u1", GroupName["A"], "A", TRUE) \in prevCalls
    /\ Call("createChild", "u1", GroupName["A"], "A", TRUE) \in CallSet
    /\ Call("add", "u1", GroupName["A"], "A", TRUE) \in CallSet
    /\ <<"u1", "A">> \in members

\* ------------------------------------------------- the pace of the cycles
\* The call log of the running cycle grows by appending.
CallsExtended ==
    /\ Len(calls') >= Len(calls)
    /\ SubSeq(calls', 1, Len(calls)) = calls

\* C26: the cycles follow one another: a new cycle begins only out of the
\* sleep that ended the cycle before it, whether that cycle ran to its end,
\* was aborted or failed to renew the token, with one sleep for one new
\* cycle; the new cycle begins with no call made, all calls of the cycle
\* before it being complete; no call is made during the sleep; and within a
\* cycle the calls are made one after the other.
C26CyclePacing ==
    [][ /\ cycle' \in {cycle, cycle + 1}
        /\ (cycle' # cycle \/ pc' = "renew") =>
               /\ pc = "nap"
               /\ pc' = "renew"
               /\ cycle' = cycle + 1
               /\ calls' = <<>>
               /\ prevCalls' = {calls[i] : i \in 1..Len(calls)}
        /\ cycle' = cycle => CallsExtended
        /\ (pc = "nap" /\ cycle' = cycle) => calls' = calls
        /\ (\E i \in 1..Len(calls') : ~calls'[i].ok /\
                calls'[i].op \in PreambleOps \cup {"renew"}) =>
               pc' = "nap"
      ]_vars

\* C26 witness: the first cycle ended early on a failed call, the loop slept,
\* and the second cycle has made its calls up to the sleep that follows it.
C26Witness ==
    /\ cycle = 2
    /\ \E c \in prevCalls : ~c.ok /\ c.op \in PreambleOps \cup {"renew"}
    /\ \A c \in prevCalls : c.op \notin {"source", "add", "remove"}
    /\ CycleEnded
    /\ \E c \in CallSet : c.op = "add" /\ c.ok

\* ------------------------------------------- the requests of a collector
\* C27: the first fetch of a collector asks for offset 0, every fetch asks
\* for at most 100 items, a fetch that follows another follows a page of
\* exactly 100 items and asks for the offset of that fetch plus 100, so that
\* the k-th fetch asks for offset 100 * (k - 1), no two fetches ask for the
\* same offset, every multiple of 100 below the last offset was asked for,
\* and a collector still in its loop will ask next for 100 times the number
\* of its fetches.
C27RequestSequence ==
    /\ Len(fetched) >= 1 => fetched[1].first = 0
    /\ \A k \in 1..Len(fetched) :
           /\ fetched[k].max = 100
           /\ fetched[k].first = 100 * (k - 1)
           /\ fetched[k].size <= fetched[k].max
    /\ \A k \in 1..(Len(fetched) - 1) :
           /\ fetched[k].ok
           /\ fetched[k].size = fetched[k].max
           /\ fetched[k + 1].first = fetched[k].first + fetched[k].max
    /\ \A j, k \in 1..Len(fetched) :
           fetched[j].first = fetched[k].first => j = k
    /\ \A k \in 1..Len(fetched) :
           \A m \in 0..(fetched[k].first \div 100) :
               \E j \in 1..k : fetched[j].first = 100 * m
    /\ pagPc = "loop" => paramFirst = 100 * Len(fetched)

\* C27 witness: GetChildrenGroups has read a collection of 300 groups with
\* fetches at the offsets 0, 100, 200 and 300, the last of them empty.
C27Witness ==
    /\ collector = "GetChildrenGroups"
    /\ Returned
    /\ ~result.err
    /\ [k \in 1..Len(fetched) |-> fetched[k].first] = <<0, 100, 200, 300>>
    /\ Sizes = <<100, 100, 100, 0>>

\* ------------------------------------------------- creation when needed
\* The calls a step appends to the call log of the running cycle.
NewCalls ==
    IF cycle' = cycle /\ Len(calls') > Len(calls)
    THEN SubSeq(calls', Len(calls) + 1, Len(calls'))
    ELSE <<>>

\* C28: a child create_group call for a name is made only while the user
\* being processed has the name in the source set, holds no group of that
\* name and no member of the managed parent's child of that name, and the
\* index has no entry for the name at that moment; an add_membership call for
\* a name the index already holds comes alone, with no create_group call in
\* its step, and with the handle the index holds; every add_membership call
\* carries the handle of the index entry of its name.
C28LazyCreation ==
    [][ \A i \in 1..Len(NewCalls) :
          LET c == NewCalls[i]
          IN  /\ c.op = "createChild" =>
                     /\ pc = "additions"
                     /\ c.user = curUser
                     /\ c.name \in source[curUser]
                     /\ c.name \notin DOMAIN kcUsersGroupsMap[curUser]
                     /\ \A g \in exists :
                            (GroupParent[g] = kcParentGroupID /\ GroupName[g] = c.name)
                                => <<curUser, g>> \notin members
                     /\ c.name \notin DOMAIN kcChildrenGroups
                     /\ \A j \in 1..Len(NewCalls) :
                            NewCalls[j].op = "createChild" => j = i
              /\ c.op = "add" =>
                     /\ c.user = curUser
                     /\ c.name \in source[curUser]
                     /\ c.name \in DOMAIN kcChildrenGroups'
                     /\ c.gid = kcChildrenGroups'[c.name]
                     /\ c.name \in DOMAIN kcChildrenGroups =>
                            /\ NewCalls = <<c>>
                            /\ c.gid = kcChildrenGroups[c.name]
      ]_vars

\* C28 witness: u1 held the child a, the source names a and b for u1, the
\* index held both names from the enumeration, and the cycle has added u1 to
\* the child b with one add_membership call and no create_group call.
C28Witness ==
    /\ cycle = 1
    /\ CycleEnded
    /\ source["u1"] = {Na, Nb}
    /\ <<"u1", "A">> \in startMembers
    /\ <<"u1", "B">> \notin startMembers
    /\ DOMAIN kcChildrenGroups = {Na, Nb}
    /\ \A c \in CallSet : c.op \notin {"createChild", "createParent", "remove"}
    /\ {c \in CallSet : c.op = "add" /\ c.user = "u1"}
           = {Call("add", "u1", Nb, "B", TRUE)}
    /\ <<"u1", "B">> \in members

\* ------------------------------------------------- the target of a removal
\* C29: whenever the Deletions loop is about to remove the user being
\* processed from a group of the snapshot, the index has an entry for the
\* group's name and that entry is the group the user holds; and every
\* remove_membership call of the cycle carried the handle of the group the
\* user's snapshot holds under the name.
C29RemovalTarget ==
    /\ pc = "deletions" =>
           \A n \in delTodo :
               MustDelete(curUser, n) =>
                   /\ n \in DOMAIN kcChildrenGroups
                   /\ DeletionTarget(curUser, n) = DeletionTargetHeld(curUser, n)
    /\ \A c \in CallSet :
           c.op = "remove" => c.gid = kcUsersGroupsMap[c.user][c.name]

\* ------------------------------------------------- the index of a cycle
\* C30: after every step, every entry of the index is under its name a group
\* of that name which is a direct child of the cycle's parent and which the
\* realm holds; after the enumeration, a step of the cycle keeps every entry
\* as it is, and an entry it adds is the handle a successful child
\* create_group call of that step returned for that name.
C30IndexInvariant ==
    [][ /\ \A n \in DOMAIN kcChildrenGroups' :
               /\ kcChildrenGroups'[n] \in exists'
               /\ GroupName[kcChildrenGroups'[n]] = n
               /\ GroupParent[kcChildrenGroups'[n]] = kcParentGroupID'
        /\ (cycle' = cycle /\ pc # "getChildren") =>
               /\ \A n \in DOMAIN kcChildrenGroups :
                      /\ n \in DOMAIN kcChildrenGroups'
                      /\ kcChildrenGroups'[n] = kcChildrenGroups[n]
               /\ \A n \in DOMAIN kcChildrenGroups' \ DOMAIN kcChildrenGroups :
                      \E i \in 1..Len(NewCalls) :
                          /\ NewCalls[i].op = "createChild"
                          /\ NewCalls[i].ok
                          /\ NewCalls[i].name = n
                          /\ NewCalls[i].gid = kcChildrenGroups'[n]
        /\ pc # "getChildren" =>
               \A i \in 1..Len(NewCalls) :
                   (NewCalls[i].op = "createChild" /\ ~NewCalls[i].ok) =>
                       kcChildrenGroups' = kcChildrenGroups
      ]_vars

\* C30 witness: the cycle enumerated the child a, created the child b for a
\* user, and ends with the index holding both, a deeper descendant named b
\* being in the realm and not in the index.
C30Witness ==
    /\ CycleEnded
    /\ "D" \in exists
    /\ kcParentGroupID = "P"
    /\ kcChildrenGroups = (Na :> "A") @@ (Nb :> "B")
    /\ \E c \in CallSet : c.op = "createChild" /\ c.ok /\ c.name = Nb /\ c.gid = "B"
    /\ \A c \in CallSet : c.op = "createChild" => c.name = Nb
    /\ \A c \in CallSet : c.op # "createParent"

\* ------------------------------------------------- the order of the calls
\* The calls of the range over the users: the GSuite request of a user and
\* the changes of the user's memberships.
ReconcileOps == {"source", "remove", "createChild", "add"}

\* The positions of the calls of the range over the users in the running
\* cycle.
ReconcilePositions == {i \in 1..Len(calls) : calls[i].op \in ReconcileOps}

\* The call log of the running cycle is in the order of the range over the
\* users: in the call log of a cycle no remove_membership call of a user comes
\* after a child create_group or add_membership call of that user; a user has
\* one GSuite request at most, and every change of a user's memberships
\* follows directly on another call of the range for the same user, back to
\* that request, which succeeded: the calls of a user form one block with no
\* call of another user inside it; and the range over the users begins when
\* the groups of every user have been fetched, no other call following.
OrderedCalls ==
    /\ \A i, j \in ReconcilePositions :
           (i < j /\ calls[i].user = calls[j].user) =>
               /\ ~(calls[i].op \in {"createChild", "add"} /\ calls[j].op = "remove")
               /\ calls[j].op # "source"
    /\ \A j \in ReconcilePositions :
           /\ calls[j].user \in Users
           /\ calls[j].op # "source" =>
                  /\ j - 1 \in ReconcilePositions
                  /\ calls[j - 1].user = calls[j].user
                  /\ calls[j - 1].op = "source" => calls[j - 1].ok
    /\ \A i \in 1..Len(calls) :
           calls[i].op \notin ReconcileOps =>
               \A j \in ReconcilePositions : i < j

\* C31: every step of a cycle leaves the call log in that order: removals of
\* a user before the creations and additions of that user, the calls of a
\* user in one block begun by the user's GSuite request, no call of another
\* user inside the block.
C31PerIdentityOrdering == [][OrderedCalls']_vars

\* C31 witness: in one cycle a user was removed from one group, then a child
\* was created and the user added to it, and the other user's memberships
\* were changed too, in a block of its own.
C31Witness ==
    /\ CycleEnded
    /\ \E u \in Users : \E i, j, k \in ReconcilePositions :
           /\ i < j /\ j < k
           /\ calls[i] = Call("remove", u, calls[i].name, calls[i].gid, TRUE)
           /\ calls[j].op = "createChild" /\ calls[j].ok /\ calls[j].user = u
           /\ calls[k].op = "add" /\ calls[k].ok /\ calls[k].user = u
           /\ \E v \in Users \ {u} : \E m \in ReconcilePositions :
                  /\ calls[m].user = v
                  /\ calls[m].op \in {"remove", "add"}
                  /\ calls[m].ok

====
